---- MODULE Spec2Model ----
(***************************************************************************)
(* Model of the quant-backtest core: DataHandler (the sequential bar      *)
(* feed of src/data/data_handler.cpp) and SMAStrategy (the dual-window    *)
(* moving-average crossover of src/strategy/sma_strategy.cpp).            *)
(*                                                                         *)
(* The two classes share no state.  A behaviour is that of one caller,    *)
(* named by `client`: code that calls the feed's public methods in any    *)
(* order, code that calls a strategy's public methods in any order, or    *)
(* main() of src/main.cpp, which drives a feed into a strategy.            *)
(*                                                                         *)
(* Numbers.  Prices are C++ doubles.  The model draws them from small     *)
(* integers, for which every double sum in calculate_sma is exact and two *)
(* double quotients compare exactly as the rationals they round; a mean   *)
(* is kept as the pair sum/count and compared by cross-multiplication.    *)
(* Signal strengths 0.0, 0.5 and 1.0 are kept in tenths: 0, 5, 10.        *)
(***************************************************************************)
EXTENDS Integers, Sequences, FiniteSets, TLC

\* ------------------------------------------------------------------ bounds

\* Most bars a feed holds (rows of all loaded files together).
MaxFeed == 3

\* Largest window size passed to the SMAStrategy constructor, besides main's.
MaxWindow == 3

\* Bars a strategy is fed beyond its long window size.
MaxExtra == 3

\* Window sizes main() passes to the constructor: SMAStrategy strategy(3, 5).
MainShort == 3
MainLong == 5

\* Timestamps and closing prices that occur in the data rows.
Timestamps == {"t1", "t2"}
Prices == {10, 20, 30}

\* ------------------------------------------------------------- data types

\* struct Bar.  open, high, low and volume are stored and copied with the
\* bar but read by no method of the feed or of the strategy.
Bar(ts, c) == [timestamp |-> ts, close |-> c]
Bars == {Bar(ts, c) : ts \in Timestamps, c \in Prices}

\* struct Signal(type, timestamp, strength), strength in tenths.
Signal(t, ts, str) == [type |-> t, timestamp |-> ts, strength |-> str]

\* The last call: the method, its argument ("none" without one), its return
\* value ("void" for a void method or after a throw) and the exception it
\* threw ("none" when it returned).
Returned(op, arg, val) == [op |-> op, arg |-> arg, val |-> val, err |-> "none"]
Threw(op, arg, e) == [op |-> op, arg |-> arg, val |-> "void", err |-> e]

VARIABLES
    client,          \* the caller: "feed", "strategy" or "main"
    pc,              \* main(): the statement it is at ("caller" otherwise)
    signals,         \* main(): the signals its loop has read, in order
    bars_,           \* DataHandler::bars_
    current_index,   \* DataHandler::current_index (zero-based)
    name_,           \* Strategy::name_
    short_window_,   \* SMAStrategy::short_window_
    long_window_,    \* SMAStrategy::long_window_
    short_prices_,   \* SMAStrategy::short_prices_
    long_prices_,    \* SMAStrategy::long_prices_
    current_signal_, \* SMAStrategy::current_signal_
    ret,             \* the last call and what it returned or threw
    run,             \* history: bars returned since the cursor was last at 0
    resetFrom,       \* history: where the last reset() found the feed (the
                     \* cursor, and whether the call before it threw)
    closes           \* history: closing prices passed to on_new_bar, in order

feedVars == <<bars_, current_index>>
stratVars == <<name_, short_window_, long_window_, short_prices_,
               long_prices_, current_signal_>>
vars == <<client, pc, signals, bars_, current_index, name_, short_window_, long_window_,
          short_prices_, long_prices_, current_signal_, ret, run, resetFrom,
          closes>>

\* ------------------------------------------------------------ DataHandler

\* DataHandler::DataHandler(): no bars, index 0.
DataHandlerInit ==
    /\ bars_ = <<>>
    /\ current_index = 0

\* The CSV files load_csv may be given: one that cannot be opened, an empty
\* one, or a header line followed by data rows.  A data row is written as the
\* fields the parse of lines 42-52 reads from it.
Header == "timestamp,open,high,low,close,volume"

RowSeqs(n) == UNION {[1..k -> Bars] : k \in 0..n}

Files(n) ==
    {[opens |-> FALSE, lines |-> <<>>], [opens |-> TRUE, lines |-> <<>>]}
    \cup {[opens |-> TRUE, lines |-> <<Header>> \o rows] : rows \in RowSeqs(n)}

\* The files whose rows still fit a feed that holds n bars.
FilesFitting == [n \in 0..MaxFeed |-> Files(MaxFeed - n)]

\* Lines 36-56: the first getline drops one line, every further line gives
\* one Bar.
ParsedRows(lines) == IF lines = <<>> THEN <<>> ELSE Tail(lines)

\* Line 55: bars_.emplace_back, once per data row.
StoreRows(bars, rows) == bars \o rows

\* bool DataHandler::load_csv(file_path)
LoadCsv(file) ==
    /\ IF ~file.opens
       THEN /\ ret' = Returned("load_csv", file, FALSE)
            /\ UNCHANGED bars_
       ELSE /\ bars_' = StoreRows(bars_, ParsedRows(file.lines))
            /\ ret' = Returned("load_csv", file, TRUE)
    /\ UNCHANGED <<client, current_index, stratVars, run, resetFrom, closes>>

\* Line 67: current_index < bars_.size()
HasNextValue(index, bars) == index < Len(bars)

\* bool DataHandler::has_next() const
HasNext ==
    /\ ret' = Returned("has_next", "none", HasNextValue(current_index, bars_))
    /\ UNCHANGED <<client, feedVars, stratVars, run, resetFrom, closes>>

\* Mutant of BarAt: the index is ignored, bars_.front() is returned.
BarAtFront(bars, index) == bars[1]

\* Line 79: bars_[current_index++], the vector being zero-based.
BarAt(bars, index) == bars[index + 1]

\* Mutant of GetNextBar: bars_[current_index] without the increment.
GetNextBarNoAdvance ==
    /\ IF ~HasNextValue(current_index, bars_)
       THEN /\ ret' = Threw("get_next_bar", "none", "out_of_range")
            /\ UNCHANGED run
       ELSE /\ ret' = Returned("get_next_bar", "none", BarAt(bars_, current_index))
            /\ run' = Append(run, BarAt(bars_, current_index))
    /\ UNCHANGED <<client, bars_, current_index, stratVars, resetFrom, closes>>

\* Mutant of GetNextBar: the cursor is advanced before the range check, so
\* a throwing call moves it.
GetNextBarAdvanceFirst ==
    /\ current_index' = current_index + 1
    /\ IF ~HasNextValue(current_index, bars_)
       THEN /\ ret' = Threw("get_next_bar", "none", "out_of_range")
            /\ UNCHANGED run
       ELSE /\ ret' = Returned("get_next_bar", "none", BarAt(bars_, current_index))
            /\ run' = Append(run, BarAt(bars_, current_index))
    /\ UNCHANGED <<client, bars_, stratVars, resetFrom, closes>>

\* Bar DataHandler::get_next_bar()
GetNextBar ==
    /\ IF ~HasNextValue(current_index, bars_)
       THEN /\ ret' = Threw("get_next_bar", "none", "out_of_range")
            /\ UNCHANGED <<current_index, run>>
       ELSE /\ ret' = Returned("get_next_bar", "none", BarAt(bars_, current_index))
            /\ current_index' = current_index + 1
            /\ run' = Append(run, BarAt(bars_, current_index))
    /\ UNCHANGED <<client, bars_, stratVars, resetFrom, closes>>

\* Mutant of Reset: the cursor is rewound to the second bar, not the first.
ResetToSecond ==
    /\ current_index' = 1
    /\ ret' = Returned("reset", "none", "void")
    /\ run' = <<>>
    /\ resetFrom' = [index |-> current_index, threw |-> ret.err # "none"]
    /\ UNCHANGED <<client, bars_, stratVars, closes>>

\* void DataHandler::reset(), line 87: current_index = 0
Reset ==
    /\ current_index' = 0
    /\ ret' = Returned("reset", "none", "void")
    /\ run' = <<>>
    /\ resetFrom' = [index |-> current_index, threw |-> ret.err # "none"]
    /\ UNCHANGED <<client, bars_, stratVars, closes>>

\* size_t DataHandler::size() const
Size ==
    /\ ret' = Returned("size", "none", Len(bars_))
    /\ UNCHANGED <<client, feedVars, stratVars, run, resetFrom, closes>>

\* ------------------------------------------------------------ SMAStrategy

\* Line 25: "SMA_" + std::to_string(short_win) + "_" + std::to_string(long_win)
StrategyName(short_win, long_win) ==
    "SMA_" \o ToString(short_win) \o "_" \o ToString(long_win)

\* Line 28: current_signal_(SignalType::HOLD, "", 1.0)
InitialSignal == Signal("HOLD", "", 10)

\* SMAStrategy::SMAStrategy(short_win, long_win)
SMAStrategyInit(short_win, long_win) ==
    /\ name_ = StrategyName(short_win, long_win)
    /\ short_window_ = short_win
    /\ long_window_ = long_win
    /\ short_prices_ = <<>>
    /\ long_prices_ = <<>>
    /\ current_signal_ = InitialSignal

\* std::accumulate(prices.begin(), prices.end(), 0.0)
RECURSIVE Accumulate(_)
Accumulate(prices) ==
    IF prices = <<>> THEN 0 ELSE Head(prices) + Accumulate(Tail(prices))

\* Mutant of calculate_sma: the sum is returned, the division is missing.
calculate_sma_sum(prices) ==
    IF prices = <<>>
    THEN [num |-> 0, den |-> 1]
    ELSE [num |-> Accumulate(prices), den |-> 1]

\* double SMAStrategy::calculate_sma(prices): 0.0 for an empty deque, else
\* sum / prices.size(), kept as the fraction num/den.
calculate_sma(prices) ==
    IF prices = <<>>
    THEN [num |-> 0, den |-> 1]
    ELSE [num |-> Accumulate(prices), den |-> Len(prices)]

\* Mutant of Greater: >= for >.
GreaterOrEqual(a, b) == a.num * b.den >= b.num * a.den

\* a > b and a < b on two means (denominators are positive).
Greater(a, b) == a.num * b.den > b.num * a.den
Less(a, b) == a.num * b.den < b.num * a.den

\* Mutant of PushBack: push_front.
PushFront(prices, close) == <<close>> \o prices

\* Lines 67-68: push_back(bar.close)
PushBack(prices, close) == Append(prices, close)

\* Mutant of Evict: >= for >, the oldest price is dropped one bar early.
EvictEarly(prices, window) ==
    IF Len(prices) >= window /\ prices # <<>> THEN Tail(prices) ELSE prices

\* Mutant of Evict: a queue over its cap loses its two oldest prices.
EvictTwice(prices, window) ==
    IF Len(prices) > window
    THEN IF Len(prices) >= 2 THEN Tail(Tail(prices)) ELSE <<>>
    ELSE prices

\* Mutant of Evict: a queue over its cap is cleared.
EvictClear(prices, window) == IF Len(prices) > window THEN <<>> ELSE prices

\* Mutant of Evict: the oldest price is dropped one bar late.
EvictLate(prices, window) ==
    IF Len(prices) > window + 1 THEN Tail(prices) ELSE prices

\* Lines 71-77: if (prices.size() > window) prices.pop_front()
Evict(prices, window) == IF Len(prices) > window THEN Tail(prices) ELSE prices

\* Mutant of WarmingUp: the gate opens one bar early.
WarmingUpShort(long_prices, long_window) == Len(long_prices) < long_window - 1

\* Line 81: long_prices_.size() < long_window_
WarmingUp(long_prices, long_window) == Len(long_prices) < long_window

\* Mutant of WarmUpSignal: the warm-up signal carries no timestamp.
WarmUpSignalUnstamped(ts) == Signal("HOLD", "", 0)

\* Line 82: the signal of the warm-up branch.
WarmUpSignal(ts) == Signal("HOLD", ts, 0)

\* Mutant of Crossover: the two comparisons are swapped.
CrossoverSwapped(short_sma, long_sma, ts) ==
    IF Less(short_sma, long_sma) THEN Signal("BUY", ts, 10)
    ELSE IF Greater(short_sma, long_sma) THEN Signal("SELL", ts, 10)
    ELSE Signal("HOLD", ts, 5)

\* Lines 91-102: the signal for the two averages.
Crossover(short_sma, long_sma, ts) ==
    IF Greater(short_sma, long_sma) THEN Signal("BUY", ts, 10)
    ELSE IF Less(short_sma, long_sma) THEN Signal("SELL", ts, 10)
    ELSE Signal("HOLD", ts, 5)

\* Lines 81-102: the signal on_new_bar caches, from the windows as they are
\* after insertion and eviction.
SignalFor(short_prices, long_prices, long_window, ts) ==
    IF WarmingUp(long_prices, long_window)
    THEN WarmUpSignal(ts)
    ELSE Crossover(calculate_sma(short_prices), calculate_sma(long_prices), ts)

\* Mutant of OnNewBar: the warm-up lasts until both queues are full.
OnNewBarBothGate(bar) ==
    /\ Len(closes) < long_window_ + MaxExtra
    /\ LET short_prices == Evict(PushBack(short_prices_, bar.close), short_window_)
           long_prices == Evict(PushBack(long_prices_, bar.close), long_window_)
       IN /\ short_prices_' = short_prices
          /\ long_prices_' = long_prices
          /\ current_signal_' =
                 IF WarmingUp(short_prices, short_window_)
                 THEN WarmUpSignal(bar.timestamp)
                 ELSE SignalFor(short_prices, long_prices, long_window_,
                                bar.timestamp)
    /\ ret' = Returned("on_new_bar", bar, "void")
    /\ closes' = Append(closes, bar.close)
    /\ UNCHANGED <<client, feedVars, name_, short_window_, long_window_, run,
                   resetFrom>>

\* Mutant of OnNewBar: the warm-up test comes before the short queue is
\* updated, so the bars of the warm-up never enter it.
OnNewBarShortAfterGate(bar) ==
    /\ Len(closes) < long_window_ + MaxExtra
    /\ LET long_prices == Evict(PushBack(long_prices_, bar.close), long_window_)
           short_prices ==
               IF WarmingUp(long_prices, long_window_)
               THEN short_prices_
               ELSE Evict(PushBack(short_prices_, bar.close), short_window_)
       IN /\ short_prices_' = short_prices
          /\ long_prices_' = long_prices
          /\ current_signal_' =
                 SignalFor(short_prices, long_prices, long_window_, bar.timestamp)
    /\ ret' = Returned("on_new_bar", bar, "void")
    /\ closes' = Append(closes, bar.close)
    /\ UNCHANGED <<client, feedVars, name_, short_window_, long_window_, run,
                   resetFrom>>

\* void SMAStrategy::on_new_bar(const Bar& bar)
OnNewBar(bar) ==
    /\ Len(closes) < long_window_ + MaxExtra
    /\ LET short_prices == Evict(PushBack(short_prices_, bar.close), short_window_)
           long_prices == Evict(PushBack(long_prices_, bar.close), long_window_)
       IN /\ short_prices_' = short_prices
          /\ long_prices_' = long_prices
          /\ current_signal_' =
                 SignalFor(short_prices, long_prices, long_window_, bar.timestamp)
    /\ ret' = Returned("on_new_bar", bar, "void")
    /\ closes' = Append(closes, bar.close)
    /\ UNCHANGED <<client, feedVars, name_, short_window_, long_window_, run,
                   resetFrom>>

\* Mutant of GenerateSignal: reading the signal consumes it, the cache falls
\* back to a HOLD of strength 0.
GenerateSignalConsuming ==
    /\ ret' = Returned("generate_signal", "none", current_signal_)
    /\ current_signal_' = Signal("HOLD", current_signal_.timestamp, 0)
    /\ UNCHANGED <<client, feedVars, name_, short_window_, long_window_,
                   short_prices_, long_prices_, run, resetFrom, closes>>

\* Signal SMAStrategy::generate_signal() const
GenerateSignal ==
    /\ ret' = Returned("generate_signal", "none", current_signal_)
    /\ UNCHANGED <<client, feedVars, stratVars, run, resetFrom, closes>>

\* std::string Strategy::get_name() const
GetName ==
    /\ ret' = Returned("get_name", "none", name_)
    /\ UNCHANGED <<client, feedVars, stratVars, run, resetFrom, closes>>

\* The (short_win, long_win) pairs a strategy is constructed with: every pair
\* up to MaxWindow, zero included (the parameters are size_t and unchecked),
\* and the pair of main().
WindowArgs == ((0..MaxWindow) \X (0..MaxWindow)) \cup {<<MainShort, MainLong>>}

\* ------------------------------------------------------------------- main

\* int main(), src/main.cpp.  Its local `bar` is the value get_next_bar has
\* just returned (ret.val), its local `signal` the last element of `signals`.

\* Lines 9-12: load_csv; return 1 if it fails.
MainLoad ==
    /\ client = "main"
    /\ pc = "load"
    /\ \E file \in FilesFitting[0] : LoadCsv(file)
    /\ pc' = IF ret'.val THEN "get_name" ELSE "return_1"
    /\ UNCHANGED signals

\* Line 14: the strategy's name is printed.
MainGetName ==
    /\ client = "main"
    /\ pc = "get_name"
    /\ GetName
    /\ pc' = "size"
    /\ UNCHANGED signals

\* Line 15: the number of bars is printed.
MainSize ==
    /\ client = "main"
    /\ pc = "size"
    /\ Size
    /\ pc' = "while"
    /\ UNCHANGED signals

\* Mutant of MainWhile: the loop test is negated.
MainWhileNegated ==
    /\ client = "main"
    /\ pc = "while"
    /\ HasNext
    /\ pc' = IF ret'.val THEN "return_0" ELSE "get_next_bar"
    /\ UNCHANGED signals

\* Line 18: while (data.has_next()); line 32 when it answers false.
MainWhile ==
    /\ client = "main"
    /\ pc = "while"
    /\ HasNext
    /\ pc' = IF ret'.val THEN "get_next_bar" ELSE "return_0"
    /\ UNCHANGED signals

\* Line 19: Bar bar = data.get_next_bar().  No handler is installed, so an
\* exception would end the program.
MainGetNextBar ==
    /\ client = "main"
    /\ pc = "get_next_bar"
    /\ GetNextBar
    /\ pc' = IF ret'.err = "none" THEN "on_new_bar" ELSE "terminate"
    /\ UNCHANGED signals

\* Line 20: strategy.on_new_bar(bar)
MainOnNewBar ==
    /\ client = "main"
    /\ pc = "on_new_bar"
    /\ OnNewBar(ret.val)
    /\ pc' = "generate_signal"
    /\ UNCHANGED signals

\* Lines 21-29: Signal signal = strategy.generate_signal(), printed; back to
\* the loop test.
MainGenerateSignal ==
    /\ client = "main"
    /\ pc = "generate_signal"
    /\ GenerateSignal
    /\ signals' = Append(signals, ret'.val)
    /\ pc' = "while"

MainNext ==
    \/ MainLoad
    \/ MainGetName
    \/ MainSize
    \/ MainWhile
    \/ MainGetNextBar
    \/ MainOnNewBar
    \/ MainGenerateSignal

\* ---------------------------------------------------------- specification

\* The objects as constructed.  main() and the caller of the feed hold the
\* feed beside the strategy of main(); the caller of a strategy constructs it
\* with any window sizes.
Init ==
    /\ client \in {"feed", "strategy", "main"}
    /\ pc = IF client = "main" THEN "load" ELSE "caller"
    /\ signals = <<>>
    /\ DataHandlerInit
    /\ \E w \in WindowArgs :
          /\ client # "strategy" => w = <<MainShort, MainLong>>
          /\ SMAStrategyInit(w[1], w[2])
    /\ ret = Returned("constructor", "none", "void")
    /\ run = <<>>
    /\ resetFrom = [index |-> -1, threw |-> FALSE]
    /\ closes = <<>>

\* Code that holds the feed, about to call one of its public methods; it is
\* not main().
FeedCaller == client = "feed" /\ UNCHANGED <<pc, signals>>

\* Code that holds a strategy, about to call one of its public methods.
StrategyCaller == client = "strategy" /\ UNCHANGED <<pc, signals>>

Next ==
    \/ /\ FeedCaller
       /\ \E file \in FilesFitting[Len(bars_)] : LoadCsv(file)
    \/ FeedCaller /\ HasNext
    \/ FeedCaller /\ GetNextBar
    \/ FeedCaller /\ Reset
    \/ FeedCaller /\ Size
    \/ /\ StrategyCaller
       /\ \E bar \in Bars : OnNewBar(bar)
    \/ StrategyCaller /\ GenerateSignal
    \/ StrategyCaller /\ GetName
    \/ MainNext

Spec == Init /\ [][Next]_vars

\* main() alone, which runs on: a statement that can execute does.
MainInit == Init /\ client = "main"

MainSpec == MainInit /\ [][MainNext]_vars /\ WF_vars(MainNext)

\* ------------------------------------------------------- claims: the feed

\* The bars a successful load_csv call has just read from its file.
JustLoaded == ParsedRows(ret.arg.lines)

Exhausted == ~(current_index < Len(bars_))

\* C1: from cursor 0, a feed of N bars gives exactly N successful
\* get_next_bar() calls: has_next() answers true while fewer than N bars were
\* returned and false after the N-th, a call that succeeds is one of the
\* first N, and a call throws out_of_range exactly as the (N+1)-th.
C1_ExactlyNSucceed ==
    /\ Len(run) <= Len(bars_)
    /\ ret.op = "has_next" => ret.val = (Len(run) < Len(bars_))
    /\ (ret.op = "get_next_bar" /\ ret.err = "none") => Len(run) \in 1..Len(bars_)
    /\ (ret.op = "get_next_bar" /\ ret.err # "none") =>
           (ret.err = "out_of_range" /\ Len(run) = Len(bars_))

\* All N bars of a three-bar feed were returned and the fourth call threw.
C1_Witness ==
    /\ Len(bars_) = MaxFeed
    /\ Len(run) = MaxFeed
    /\ ret.op = "get_next_bar"
    /\ ret.err = "out_of_range"

\* C2: after a successful load_csv the feed holds exactly the bars just
\* loaded and its cursor is 0, so that the next get_next_bar() returns the
\* first of them; also for a second load on a feed that was read before.
C2_LoadReplaces ==
    (ret.op = "load_csv" /\ ret.val = TRUE) =>
        /\ Len(bars_) = Len(JustLoaded)
        /\ current_index = 0
        /\ JustLoaded # <<>> => bars_[current_index + 1] = JustLoaded[1]

\* C3: the cursor stays within [0, length]; it decreases only in a reset()
\* step; a successful get_next_bar() returns the bar at the cursor as it was
\* before the call and moves the cursor by exactly one.
C3_CursorDiscipline ==
    /\ [](current_index \in 0..Len(bars_))
    /\ [][current_index' < current_index => ret'.op = "reset"]_vars
    /\ [][(ret'.op = "get_next_bar" /\ ret'.err = "none") =>
            /\ current_index' = current_index + 1
            /\ ret'.val = bars_[current_index + 1]]_vars

\* The second of two different bars was returned from cursor position 1.
C3_Witness ==
    /\ ret.op = "get_next_bar"
    /\ ret.err = "none"
    /\ current_index = 2
    /\ ret.val = bars_[2]
    /\ bars_[1] # bars_[2]

\* C4: after a reset() from any cursor position, the bars returned up to
\* exhaustion are exactly the loaded sequence, each once and in insertion
\* order (at every point of the replay they are a prefix of it).
C4_ResetReplays ==
    resetFrom.index >= 0 =>
        /\ Len(run) <= Len(bars_)
        /\ run = SubSeq(bars_, 1, Len(run))
        /\ Exhausted => run = bars_

\* A feed of three bars, not all equal, replayed in full after a reset()
\* that followed a throwing get_next_bar() on the exhausted feed.
C4_Witness ==
    /\ Len(bars_) = MaxFeed
    /\ bars_[1] # bars_[2]
    /\ resetFrom.index = Len(bars_)
    /\ resetFrom.threw
    /\ Exhausted
    /\ run = bars_

\* C5: only get_next_bar() throws, only out_of_range and only on an
\* exhausted feed, where it always throws; a throwing call leaves cursor and
\* bars as they were, so a has_next() right after it answers false and a
\* get_next_bar() right after it throws again.
C5_OnlyExhaustionThrows ==
    /\ [](ret.err # "none" =>
            /\ ret.op = "get_next_bar"
            /\ ret.err = "out_of_range"
            /\ Exhausted)
    /\ [][(ret'.op = "get_next_bar" /\ Exhausted) => ret'.err = "out_of_range"]_vars
    /\ [][ret'.err # "none" => UNCHANGED <<bars_, current_index>>]_vars
    /\ [][(ret.err # "none" /\ ret'.op = "has_next") => ret'.val = FALSE]_vars
    /\ [][(ret.err # "none" /\ ret'.op = "get_next_bar") => ret'.err # "none"]_vars

\* get_next_bar() threw on a feed whose two bars had both been returned.
C5_Witness ==
    /\ ret.op = "get_next_bar"
    /\ ret.err = "out_of_range"
    /\ Len(bars_) = 2
    /\ current_index = 2

\* --------------------------------------------------- claims: the strategy

\* The number of on_new_bar calls made so far.
BarsSeen == Len(closes)

GateOpen == BarsSeen >= 1 /\ Len(long_prices_) = long_window_

\* The arithmetic mean of a queue as the fraction Total/Count; the mean of an
\* empty queue is 0.
Total(queue) == Accumulate(queue)
Count(queue) == IF queue = <<>> THEN 1 ELSE Len(queue)

ShortMeanAbove ==
    Total(short_prices_) * Count(long_prices_)
        > Total(long_prices_) * Count(short_prices_)
ShortMeanBelow ==
    Total(short_prices_) * Count(long_prices_)
        < Total(long_prices_) * Count(short_prices_)

IsSignal(sig, type, strength) == sig.type = type /\ sig.strength = strength

StrictlyIncreasing(seq) == \A i \in 1..(Len(seq) - 1) : seq[i] < seq[i + 1]
StrictlyDecreasing(seq) == \A i \in 1..(Len(seq) - 1) : seq[i] > seq[i + 1]

\* C6: after each of the first long_window_ - 1 on_new_bar calls the cached
\* signal, and what generate_signal() returns, is HOLD with strength 0.0,
\* whatever the prices and the short window size.
C6_WarmUpHolds ==
    (BarsSeen >= 1 /\ BarsSeen <= long_window_ - 1) =>
        /\ IsSignal(current_signal_, "HOLD", 0)
        /\ ret.op = "generate_signal" => IsSignal(ret.val, "HOLD", 0)

\* generate_signal() after the last warm-up bar of a strategy whose long
\* window is 3 or more, the prices not all equal.
C6_Witness ==
    /\ long_window_ >= 3
    /\ BarsSeen = long_window_ - 1
    /\ closes[1] # closes[2]
    /\ ret.op = "generate_signal"
    /\ IsSignal(ret.val, "HOLD", 0)

\* C7: once the long queue holds long_window_ prices, the signal cached by
\* on_new_bar is BUY/1.0 iff the mean of the short queue is above the mean of
\* the long queue, SELL/1.0 iff it is below, HOLD/0.5 iff the two are equal,
\* the queues being those after insertion and eviction.
C7_SignalFollowsMeans ==
    GateOpen =>
        /\ IsSignal(current_signal_, "BUY", 10) <=> ShortMeanAbove
        /\ IsSignal(current_signal_, "SELL", 10) <=> ShortMeanBelow
        /\ IsSignal(current_signal_, "HOLD", 5)
               <=> (~ShortMeanAbove /\ ~ShortMeanBelow)

\* Equal means of two different windows: HOLD/0.5 with a short window of one
\* price and a long window of three different prices.
C7_Witness ==
    /\ GateOpen
    /\ short_window_ = 1
    /\ long_window_ = 3
    /\ long_prices_[1] # long_prices_[2]
    /\ IsSignal(current_signal_, "HOLD", 5)

\* C8: generate_signal() on a strategy that has seen no bar returns HOLD with
\* an empty timestamp and a neutral strength, 0.0 or 0.5.
C8_FreshSignalNeutral ==
    (ret.op = "generate_signal" /\ BarsSeen = 0) =>
        /\ ret.val.type = "HOLD"
        /\ ret.val.timestamp = ""
        /\ ret.val.strength \in {0, 5}

\* The closing prices of the concrete scenario, fed to SMAStrategy(3, 5).
Scenario == <<10, 10, 10, 10, 10, 20, 20, 20>>

OnScenario(k) ==
    /\ short_window_ = MainShort
    /\ long_window_ = MainLong
    /\ closes = SubSeq(Scenario, 1, k)

\* C9 as stated: HOLD/0.0 after bars 1 to 4, HOLD/0.5 after bar 5, SELL/1.0
\* after bar 6, BUY/1.0 after bar 8.
C9_ScenarioAsStated ==
    /\ \A k \in 1..4 : OnScenario(k) => IsSignal(current_signal_, "HOLD", 0)
    /\ OnScenario(5) => IsSignal(current_signal_, "HOLD", 5)
    /\ OnScenario(6) => IsSignal(current_signal_, "SELL", 10)
    /\ OnScenario(8) => IsSignal(current_signal_, "BUY", 10)

\* C9 as amended: HOLD/0.0 after bars 1 to 4, HOLD/0.5 after bar 5, BUY/1.0
\* after bar 6 (short mean 40/3 above long mean 60/5), BUY/1.0 after bar 8.
C9_Scenario ==
    /\ \A k \in 1..4 : OnScenario(k) => IsSignal(current_signal_, "HOLD", 0)
    /\ OnScenario(5) => IsSignal(current_signal_, "HOLD", 5)
    /\ OnScenario(6) =>
           /\ IsSignal(current_signal_, "BUY", 10)
           /\ Total(short_prices_) = 40 /\ Len(short_prices_) = 3
           /\ Total(long_prices_) = 60 /\ Len(long_prices_) = 5
    /\ OnScenario(8) => IsSignal(current_signal_, "BUY", 10)

\* All eight bars of the scenario have been processed, the last just now.
C9_Witness ==
    /\ OnScenario(8)
    /\ ret.op = "on_new_bar"
    /\ IsSignal(current_signal_, "BUY", 10)

BothFull ==
    /\ Len(short_prices_) = short_window_
    /\ Len(long_prices_) = long_window_

\* C10 as stated: for any positive window sizes, short below long or not,
\* once both queues are full strictly increasing prices leave BUY/1.0 and
\* strictly decreasing prices leave SELL/1.0.
C10_MonotoneAsStated ==
    (short_window_ >= 1 /\ long_window_ >= 1 /\ BarsSeen >= 2 /\ BothFull) =>
        /\ StrictlyIncreasing(closes) =>
               (ShortMeanAbove /\ IsSignal(current_signal_, "BUY", 10))
        /\ StrictlyDecreasing(closes) =>
               (ShortMeanBelow /\ IsSignal(current_signal_, "SELL", 10))

\* C10 as amended: the same for 1 <= short_window_ < long_window_.
C10_Monotone ==
    (short_window_ >= 1 /\ short_window_ < long_window_ /\ BarsSeen >= 1
            /\ BothFull) =>
        /\ StrictlyIncreasing(closes) =>
               (ShortMeanAbove /\ IsSignal(current_signal_, "BUY", 10))
        /\ StrictlyDecreasing(closes) =>
               (ShortMeanBelow /\ IsSignal(current_signal_, "SELL", 10))

\* Three strictly increasing prices through windows 1 and 2: the second
\* signal after both queues filled.
C10_Witness ==
    /\ short_window_ = 1
    /\ long_window_ = 2
    /\ BarsSeen = 3
    /\ StrictlyIncreasing(closes)
    /\ IsSignal(current_signal_, "BUY", 10)

\* Every bar so far closed at c.
ConstantPrice(c) == BarsSeen >= 1 /\ \A i \in 1..BarsSeen : closes[i] = c

\* The mean of a queue is c.
MeanIs(queue, c) == Total(queue) = c * Count(queue)

FlatHold(c) ==
    /\ MeanIs(short_prices_, c)
    /\ MeanIs(long_prices_, c)
    /\ IsSignal(current_signal_, "HOLD", 5)

\* C11 as stated: for a strategy of any window sizes fed one closing price c
\* on every bar, after each on_new_bar call from the long_window_-th on both
\* means are c and the signal is HOLD/0.5, never BUY or SELL.
C11_FlatAsStated ==
    \A c \in Prices :
        (ConstantPrice(c) /\ BarsSeen >= long_window_) => FlatHold(c)

\* C11: for a strategy of positive window sizes fed one closing price c on
\* every bar, after each on_new_bar call from the long_window_-th on both
\* means are c and the signal is HOLD/0.5, never BUY or SELL.
C11_Flat ==
    \A c \in Prices :
        (short_window_ >= 1 /\ long_window_ >= 1 /\ ConstantPrice(c)
                /\ BarsSeen >= long_window_) => FlatHold(c)

\* The flat price has outlasted both windows of different sizes: prices were
\* evicted and the signal is still HOLD/0.5.
C11_Witness ==
    /\ short_window_ = 2
    /\ long_window_ = 3
    /\ BarsSeen = 5
    /\ ConstantPrice(20)
    /\ ret.op = "on_new_bar"
    /\ IsSignal(current_signal_, "HOLD", 5)

\* C12: after every on_new_bar call the short queue holds at most
\* short_window_ prices and the long queue at most long_window_; inside a
\* call, between the insertion and the eviction, a queue is over its cap by
\* at most one element.
C12_QueuesCapped ==
    /\ Len(short_prices_) <= short_window_
    /\ Len(long_prices_) <= long_window_
    /\ \A close \in Prices :
          /\ Len(PushBack(short_prices_, close)) <= short_window_ + 1
          /\ Len(PushBack(long_prices_, close)) <= long_window_ + 1

\* Both queues are at their cap after more bars than the larger window:
\* insertions went over the cap and evictions brought the queues back.
C12_Witness ==
    /\ ret.op = "on_new_bar"
    /\ 1 <= short_window_
    /\ short_window_ < long_window_
    /\ BarsSeen > long_window_
    /\ Len(short_prices_) = short_window_
    /\ Len(long_prices_) = long_window_

\* C13: when short_window_ <= long_window_, whenever the long queue holds
\* long_window_ prices the short queue holds exactly short_window_.
C13_ShortFullWhenLongFull ==
    (short_window_ <= long_window_ /\ Len(long_prices_) = long_window_) =>
        Len(short_prices_) = short_window_

\* The bar that fills a long queue of three finds the short queue of two
\* already full.
C13_Witness ==
    /\ ret.op = "on_new_bar"
    /\ short_window_ = 2
    /\ long_window_ = 3
    /\ BarsSeen = 3
    /\ Len(long_prices_) = 3
    /\ Len(short_prices_) = 2

\* C14: the read-only operations change no state.  has_next and size leave
\* the bars and the cursor as they are, and size answers the number of bars
\* whatever the cursor; get_next_bar and reset change nothing but the cursor;
\* generate_signal and get_name leave the queues, the cached signal and the
\* name as they are, and generate_signal called again with no on_new_bar in
\* between returns the same signal.
C14_ReadOnly ==
    /\ [][/\ ret'.op \in {"has_next", "size"} =>
                UNCHANGED <<bars_, current_index, stratVars>>
          /\ ret'.op = "size" => ret'.val = Len(bars_)
          /\ ret'.op \in {"get_next_bar", "reset"} =>
                UNCHANGED <<bars_, stratVars>>
          /\ ret'.op \in {"generate_signal", "get_name"} =>
                UNCHANGED <<feedVars, stratVars>>
          /\ (ret.op = "generate_signal" /\ ret'.op = "generate_signal") =>
                ret'.val = ret.val]_vars
    /\ [](ret.op = "generate_signal" => ret.val = current_signal_)

\* generate_signal has returned a BUY that is still the cached signal.
C14_Witness ==
    /\ ret.op = "generate_signal"
    /\ ret.val.type = "BUY"
    /\ ret.val = current_signal_
    /\ Len(long_prices_) = long_window_

\* The signal the claims expect of the last on_new_bar(bar) call.
Classified(ts) ==
    IF ~GateOpen THEN Signal("HOLD", ts, 0)
    ELSE IF ShortMeanAbove THEN Signal("BUY", ts, 10)
    ELSE IF ShortMeanBelow THEN Signal("SELL", ts, 10)
    ELSE Signal("HOLD", ts, 5)

\* C15: after every on_new_bar(bar) call, in the warm-up branch as in the
\* BUY, SELL and HOLD branches, the cached signal is the one that call
\* computed and carries bar.timestamp, and generate_signal returns it: the
\* signal of the previous bar is replaced.
C15_LatestSignal ==
    /\ [](ret.op = "on_new_bar" =>
              current_signal_ = Classified(ret.arg.timestamp))
    /\ [][(ret.op = "on_new_bar" /\ ret'.op = "generate_signal") =>
              /\ ret'.val = current_signal_
              /\ ret'.val.timestamp = ret.arg.timestamp]_vars

\* A second bar with another timestamp has replaced the warm-up signal of
\* the first by a SELL.
C15_Witness ==
    /\ short_window_ = 1
    /\ long_window_ = 2
    /\ BarsSeen = 2
    /\ ret.op = "generate_signal"
    /\ ret.val = Signal("SELL", "t2", 10)

Min(a, b) == IF a <= b THEN a ELSE b

\* The last n elements of a sequence, in order.
LastN(seq, n) == SubSeq(seq, Len(seq) - n + 1, Len(seq))

IsSuffixOf(a, b) == Len(a) <= Len(b) /\ a = LastN(b, Len(a))

\* C16: after k on_new_bar calls with closes c1..ck the short queue is the
\* last min(k, short_window_) of them in order and the long queue the last
\* min(k, long_window_); the shorter queue is a suffix of the longer.
C16_QueuesAreSuffixes ==
    /\ short_prices_ = LastN(closes, Min(BarsSeen, short_window_))
    /\ long_prices_ = LastN(closes, Min(BarsSeen, long_window_))
    /\ \/ IsSuffixOf(short_prices_, long_prices_)
       \/ IsSuffixOf(long_prices_, short_prices_)

\* Five bars of changing prices through windows 2 and 3: both queues have
\* evicted and hold the newest prices.
C16_Witness ==
    /\ short_window_ = 2
    /\ long_window_ = 3
    /\ closes = <<10, 20, 30, 10, 20>>
    /\ short_prices_ = <<10, 20>>
    /\ long_prices_ = <<30, 10, 20>>

\* C18: once the warm-up gate has opened it stays open: the long queue never
\* gets shorter, and after every on_new_bar call from the long_window_-th on
\* the signal is not the HOLD/0.0 of the warm-up, whatever bars follow, the
\* bars of a feed that was reset and replayed included.
C18_GateStaysOpen ==
    /\ [][Len(long_prices_') >= Len(long_prices_)]_vars
    /\ [][GateOpen => GateOpen']_vars
    /\ []((BarsSeen >= 1 /\ BarsSeen >= long_window_) =>
              ~IsSignal(current_signal_, "HOLD", 0))

\* The strategy was fed the bars 10, 20 twice over, as by a feed reset after
\* its second bar; the gate opened in the first pass and the last signal is
\* still a BUY.
C18_Witness ==
    /\ short_window_ = 1
    /\ long_window_ = 2
    /\ closes = <<10, 20, 10, 20>>
    /\ ret.op = "on_new_bar"
    /\ IsSignal(current_signal_, "BUY", 10)

Max(a, b) == IF a >= b THEN a ELSE b

\* What C19 says of the call that opens the gate.
SameQueuesHold ==
    /\ GateOpen
    /\ short_prices_ = long_prices_
    /\ Len(long_prices_) = long_window_
    /\ IsSignal(current_signal_, "HOLD", 5)
    /\ short_window_ > long_window_ => Len(short_prices_) < short_window_

C20_MeansOfNonEmptyQueues ==
    (short_window_ >= 1 /\ long_window_ >= 1 /\ GateOpen) =>
        /\ short_prices_ # <<>>
        /\ long_prices_ # <<>>
        /\ Count(short_prices_) = Len(short_prices_)
        /\ Count(long_prices_) = Len(long_prices_)

\* The smallest short window after evictions: the gate is open and the short
\* queue holds its one price.
C20_Witness ==
    /\ short_window_ = 1
    /\ long_window_ = 2
    /\ BarsSeen = 4
    /\ ret.op = "on_new_bar"
    /\ GateOpen
    /\ Len(short_prices_) = 1
    /\ current_signal_.strength # 0

\* ------------------------------------------------------ claims: the driver

\* The closing prices of a sequence of bars.
ClosesOf(bars) == [i \in 1..Len(bars) |-> bars[i].close]

\* C17: the loop of main() over a loaded feed of N bars ends after exactly N
\* iterations: it never sees out_of_range, has read one signal per bar taken
\* and no more than N at any time, and when it leaves the loop it has taken
\* every bar once, passed them to the strategy in feed order and read N
\* signals, the i-th stamped as the i-th bar; and it does leave the loop.
C17_DriverLoop ==
    /\ [](/\ pc # "terminate"
          /\ ret.err = "none"
          /\ Len(signals) <= Len(bars_)
          /\ pc = "while" => (Len(signals) = current_index /\ Len(run) = current_index)
          /\ pc = "return_0" =>
                /\ Len(signals) = Len(bars_)
                /\ run = bars_
                /\ closes = ClosesOf(bars_)
                /\ \A i \in 1..Len(bars_) :
                      signals[i].timestamp = bars_[i].timestamp)
    /\ (pc = "get_name") ~> (pc = "return_0")

\* main() has returned 0 after a feed of at least two different bars.
C17_Witness ==
    /\ pc = "return_0"
    /\ Len(bars_) >= 2
    /\ bars_[1] # bars_[2]
    /\ Len(signals) = Len(bars_)
    /\ ret = Returned("has_next", "none", FALSE)

====
